---- MODULE Spec2Model ----
(***************************************************************************)
(* Model of the folder organizer: folder_organizer.py (the first script)  *)
(* and folder_organizer_v2.py (the interactive rewrite).  A file name is  *)
(* a sequence of one-character strings, so that suffix extraction, case   *)
(* conversion and the counter suffixes are computed as the code computes  *)
(* them.  The directory tree is the state; every loop iteration of a pass *)
(* is one action.                                                          *)
(***************************************************************************)
EXTENDS Integers, Sequences, FiniteSets, TLC

\* ---------------------------------------------------------------- bounds
\* largest number of entries (files and folders) in the starting tree
MaxEntries == 3
\* largest number of names the user ticks in the skip checklists
MaxSkip == 1

\* entries in a starting tree when files may be unreadable and calls may fail
MaxFaultEntries == 2

\* ------------------------------------------------------- character strings
UpperLetters ==
  <<"A", "B", "C", "D", "E", "F", "G", "H", "I", "J", "K", "L", "M",
    "N", "O", "P", "Q", "R", "S", "T", "U", "V", "W", "X", "Y", "Z">>

LowerLetters ==
  <<"a", "b", "c", "d", "e", "f", "g", "h", "i", "j", "k", "l", "m",
    "n", "o", "p", "q", "r", "s", "t", "u", "v", "w", "x", "y", "z">>

DigitChars == <<"0", "1", "2", "3", "4", "5", "6", "7", "8", "9">>

UpperSet == {UpperLetters[i] : i \in 1..26}

LowerSet == {LowerLetters[i] : i \in 1..26}

DigitSet == {DigitChars[i] : i \in 1..10}

ToLower == [c \in UpperSet |-> LowerLetters[CHOOSE i \in 1..26 : UpperLetters[i] = c]]

ToUpper == [c \in LowerSet |-> UpperLetters[CHOOSE i \in 1..26 : LowerLetters[i] = c]]

IsCased(c) == c \in UpperSet \/ c \in LowerSet

IsDigit(c) == c \in DigitSet

\* str.lower() on one character
LowerChar(c) == IF c \in UpperSet THEN ToLower[c] ELSE c

\* str.upper() on one character
UpperChar(c) == IF c \in LowerSet THEN ToUpper[c] ELSE c

\* str.lower()
Lower(s) == [i \in 1..Len(s) |-> LowerChar(s[i])]

\* str.title(): a cased character is upper-cased when the character before it
\* is not cased, and lower-cased when it is
Title(s) ==
  [i \in 1..Len(s) |->
     IF IsCased(s[i])
       THEN IF i > 1 /\ IsCased(s[i - 1]) THEN LowerChar(s[i]) ELSE UpperChar(s[i])
       ELSE s[i]]

\* str.rfind(c), 1-based; 0 when c does not occur
RFind(s, c) ==
  LET hits == {i \in 1..Len(s) : s[i] = c}
  IN IF hits = {} THEN 0 ELSE CHOOSE i \in hits : \A j \in hits : j <= i

\* `sub in s`
Contains(s, sub) ==
  \E i \in 1..(Len(s) - Len(sub) + 1) : SubSeq(s, i, i + Len(sub) - 1) = sub

\* str(counter): the decimal digits of a natural number
RECURSIVE Str(_)
Str(n) ==
  IF n < 10 THEN <<DigitChars[n + 1]>>
  ELSE Str(n \div 10) \o <<DigitChars[(n % 10) + 1]>>

\* pathlib's Path.suffix: from the last dot, unless that dot starts or ends the name
PathSuffix(name) ==
  LET i == RFind(name, ".")
  IN IF 1 < i /\ i < Len(name) THEN SubSeq(name, i, Len(name)) ELSE <<>>

\* pathlib's Path.stem
PathStem(name) ==
  LET i == RFind(name, ".")
  IN IF 1 < i /\ i < Len(name) THEN SubSeq(name, 1, i - 1) ELSE name

\* os.path.splitext: split at the last dot, unless only dots come before it
SplitExt(p) ==
  LET dot == RFind(p, ".")
  IN IF dot > 0 /\ (\E k \in 1..(dot - 1) : p[k] # ".")
       THEN <<SubSeq(p, 1, dot - 1), SubSeq(p, dot, Len(p))>>
       ELSE <<p, <<>> >>

\* re.search(r'\(\d+\)', stem)
HasParenNumber(stem) ==
  \E i \in 1..Len(stem) : \E j \in (i + 2)..Len(stem) :
     /\ stem[i] = "("
     /\ stem[j] = ")"
     /\ \A k \in (i + 1)..(j - 1) : IsDigit(stem[k])

\* ----------------------------------------------------------- category table
\* the `folders` dict of main(), in insertion order; both scripts hold the same table
folders ==
  <<
   [label |-> "1 - ARCHIVES",
     name |-> <<"1", " ", "-", " ", "A", "R", "C", "H", "I", "V", "E", "S">>,
     exts |-> {
        <<".", "7", "z">>, <<".", "b", "z", "2">>, <<".", "d", "m", "p">>, <<".", "g", "z">>,
        <<".", "i", "s", "o">>, <<".", "r", "a", "r">>, <<".", "t", "a", "r">>, <<".", "t", "o", "r", "r", "e", "n", "t">>,
        <<".", "x", "z">>, <<".", "z", "i", "p">>}],
   [label |-> "2 - DOCUMENTS",
     name |-> <<"2", " ", "-", " ", "D", "O", "C", "U", "M", "E", "N", "T", "S">>,
     exts |-> {
        <<".", "b", "i", "b">>, <<".", "c", "s", "v">>, <<".", "d", "i", "c">>, <<".", "d", "o", "c">>,
        <<".", "d", "o", "c", "x">>, <<".", "e", "p", "u", "b">>, <<".", "h", "t", "m">>, <<".", "m", "d">>,
        <<".", "p", "a", "g", "e", "s">>, <<".", "p", "p", "t">>, <<".", "p", "p", "t", "x">>, <<".", "p", "s">>,
        <<".", "r", "i", "s">>, <<".", "t", "t", "l">>, <<".", "t", "x", "t">>, <<".", "x", "l", "s">>,
        <<".", "x", "l", "s", "x">>}],
   [label |-> "3 - IMAGES",
     name |-> <<"3", " ", "-", " ", "I", "M", "A", "G", "E", "S">>,
     exts |-> {
        <<".", "b", "m", "p">>, <<".", "g", "i", "f">>, <<".", "h", "e", "i", "c">>, <<".", "j", "p", "e", "g">>,
        <<".", "j", "p", "g">>, <<".", "p", "n", "g">>, <<".", "s", "v", "g">>, <<".", "t", "i", "f", "f">>,
        <<".", "w", "e", "b", "p">>}],
   [label |-> "4 - PDFs",
     name |-> <<"4", " ", "-", " ", "P", "D", "F", "s">>,
     exts |-> {
        <<".", "p", "d", "f">>}],
   [label |-> "5 - VIDEOS",
     name |-> <<"5", " ", "-", " ", "V", "I", "D", "E", "O", "S">>,
     exts |-> {
        <<".", "a", "v", "i">>, <<".", "f", "l", "v">>, <<".", "m", "k", "v">>, <<".", "m", "o", "v">>,
        <<".", "m", "p", "4">>, <<".", "w", "m", "v">>}],
   [label |-> "6 - FOLDERS",
     name |-> <<"6", " ", "-", " ", "F", "O", "L", "D", "E", "R", "S">>,
     exts |-> {}],
   [label |-> "7 - CODING",
     name |-> <<"7", " ", "-", " ", "C", "O", "D", "I", "N", "G">>,
     exts |-> {
        <<".", "b", "a", "t">>, <<".", "c">>, <<".", "c", "p", "p">>, <<".", "c", "s", "s">>,
        <<".", "g", "e", "x", "f">>, <<".", "h", "a", "r">>, <<".", "h", "t", "m", "l">>, <<".", "j", "a", "v", "a">>,
        <<".", "j", "s">>, <<".", "j", "s", "o", "n">>, <<".", "p", "h", "p">>, <<".", "p", "s", "1">>,
        <<".", "p", "y">>, <<".", "s", "h">>, <<".", "s", "q", "l", "i", "t", "e", "3">>, <<".", "t", "s">>,
        <<".", "t", "s", "x">>, <<".", "x", "m", "l">>, <<".", "y", "a", "m", "l">>, <<".", "y", "m", "l">>,
        <<".", "i", "p", "y", "n", "b">>}],
   [label |-> "8 - INSTALLERS & APPLICATIONS",
     name |-> <<"8", " ", "-", " ", "I", "N", "S", "T", "A", "L", "L", "E", "R", "S", " ", "&", " ", "A", "P", "P", "L", "I", "C", "A", "T", "I", "O", "N", "S">>,
     exts |-> {
        <<".", "a", "p", "k">>, <<".", "b", "i", "n">>, <<".", "d", "l", "l">>, <<".", "d", "m", "g">>,
        <<".", "e", "x", "e">>, <<".", "j", "a", "r">>, <<".", "m", "s", "i">>}],
   [label |-> "9 - SECURITY",
     name |-> <<"9", " ", "-", " ", "S", "E", "C", "U", "R", "I", "T", "Y">>,
     exts |-> {
        <<".", "c", "e", "r">>}],
   [label |-> "10 - OTHERS",
     name |-> <<"1", "0", " ", "-", " ", "O", "T", "H", "E", "R", "S">>,
     exts |-> {}]
  >>


\* {ext.lower() for ext in exts}, per table row
LoweredExts == [i \in 1..Len(folders) |-> {Lower(e) : e \in folders[i].exts}]

Labels == {folders[i].label : i \in 1..Len(folders)}

\* defined_categories, as directory names
CategoryNames == {folders[i].name : i \in 1..Len(folders)}

Ipynb == <<"i", "p", "y", "n", "b">>

DotIpynb == <<".", "i", "p", "y", "n", "b">>

DotPdf == <<".", "p", "d", "f">>

\* refine_exts of refine_sorting
refine_exts ==
  { <<".", "j", "s", "o", "n">>, <<".", "t", "s", "x">>, <<".", "t", "s">>,
    <<".", "y", "a", "m", "l">>, <<".", "y", "m", "l">> }

\* the folder refine_sorting reads: "9 - OTHERS" in the first script, "10 - OTHERS" in
\* the rewrite
OthersV1Name == <<"9", " ", "-", " ", "O", "T", "H", "E", "R", "S">>

\* ------------------------------------------------------------- classification
\* ext_lower as main() computes it: the lowercased suffix, overridden to ".ipynb"
\* when the lowercased name contains "ipynb"
ExtLower(name) ==
  LET ext_lower == Lower(PathSuffix(name))
  IN IF Contains(Lower(name), Ipynb) /\ ext_lower # DotIpynb THEN DotIpynb ELSE ext_lower

\* the extension the table lookup tests: the first script computes ext_lower and then
\* looks item.suffix.lower() up; the rewrite looks ext_lower up
LookupExt(v, name) == IF v = 1 THEN Lower(PathSuffix(name)) ELSE ExtLower(name)

\* the destination label main() picks for a top-level file
Classify(v, name) ==
  LET ext == LookupExt(v, name)
      hits == {i \in 1..Len(folders) :
                 /\ folders[i].exts # {}
                 /\ ext \in LoweredExts[i]}
  IN IF hits = {} THEN "10 - OTHERS"
     ELSE folders[CHOOSE i \in hits : \A j \in hits : i <= j].label

\* a plausible slip: the whole name title-cased, extension included
get_target_filename_whole(name) ==
  IF Lower(PathSuffix(name)) = DotPdf THEN Title(name) ELSE name

get_target_filename(name) ==
  IF Lower(PathSuffix(name)) = DotPdf
    THEN Title(SplitExt(name)[1]) \o Lower(SplitExt(name)[2])
    ELSE name

\* ------------------------------------------------------------------ files
\* a file is [c |-> content, r |-> readable]; a directory maps names to files
NoHash == 0

\* compute_hash of the rewrite: the digest, or None when the file cannot be read
\* (the first script's compute_hash raises instead; see CanHash)
compute_hash(f) == IF f.r THEN f.c ELSE NoHash

CanHash(f) == f.r

EmptyDir == [n \in {} |-> 0]

Remove(d, n) == [x \in (DOMAIN d) \ {n} |-> d[x]]

Put(d, n, f) == [x \in (DOMAIN d) \cup {n} |-> IF x = n THEN f ELSE d[x]]

\* a plausible slip: the comparison inverted
DigestsDiffer(target, src) == compute_hash(target) # compute_hash(src)

\* compute_hash(target) == compute_hash(src)
DigestsMatch(target, src) == compute_hash(target) = compute_hash(src)

CandidateName(stem, counter, ext) == stem \o <<"_">> \o Str(counter) \o ext

\* a plausible slip: the first candidate taken without looking whether it exists
DisambiguateUnchecked(v, stem, ext, f, dest, counter) ==
  [kind |-> "target", name |-> CandidateName(stem, counter, ext)]

\* the `while True` loop of move_and_rename_file: the first script compares every
\* existing candidate with the source, the rewrite only looks for a free name
RECURSIVE Disambiguate(_, _, _, _, _, _)
Disambiguate(v, stem, ext, f, dest, counter) ==
  LET candidate == CandidateName(stem, counter, ext)
  IN IF candidate \in DOMAIN dest
       THEN IF v = 1
              THEN IF ~CanHash(dest[candidate]) \/ ~CanHash(f)
                     THEN [kind |-> "raise"]
                   ELSE IF DigestsMatch(dest[candidate], f)
                     THEN [kind |-> "duplicate"]
                   ELSE Disambiguate(v, stem, ext, f, dest, counter + 1)
              ELSE Disambiguate(v, stem, ext, f, dest, counter + 1)
       ELSE [kind |-> "target", name |-> candidate]

\* move_and_rename_file(src, dest_folder) for a source named `name` holding f and a
\* destination directory `dest`; io says whether unlink and shutil.move succeed.
\* out: "moved", "deleted" (source unlinked as a duplicate), "failed" (the rewrite
\* caught a move error) or "raised" (an exception leaves the function)
move_and_rename_file(v, name, f, dest, io) ==
  LET base == get_target_filename(name)
      se == SplitExt(base)
      raise == [out |-> "raised", target |-> <<>>, dest |-> dest]
      unlinkSrc ==
        IF io.unlink THEN [out |-> "deleted", target |-> <<>>, dest |-> dest] ELSE raise
      moveTo(t) ==
        IF io.move THEN [out |-> "moved", target |-> t, dest |-> Put(dest, t, f)]
        ELSE IF v = 1 THEN raise
        ELSE [out |-> "failed", target |-> t, dest |-> dest]
  IN IF base \notin DOMAIN dest THEN moveTo(base)
     ELSE IF v = 1 /\ (~CanHash(dest[base]) \/ ~CanHash(f)) THEN raise
     ELSE IF DigestsMatch(dest[base], f) THEN unlinkSrc
     ELSE LET d == Disambiguate(v, se[1], se[2], f, dest, 1)
          IN CASE d.kind = "raise" -> raise
               [] d.kind = "duplicate" -> unlinkSrc
               [] d.kind = "target" -> moveTo(d.name)

\* a plausible slip: '<name>_1' taken without looking whether it exists
FreeFolderNameUnchecked(name, parent, counter) == name \o <<"_">> \o Str(counter)

\* the counter loop of move_folder
RECURSIVE FreeFolderName(_, _, _)
FreeFolderName(name, parent, counter) ==
  LET candidate == name \o <<"_">> \o Str(counter)
  IN IF candidate \in DOMAIN parent THEN FreeFolderName(name, parent, counter + 1)
     ELSE candidate

\* move_folder(src, dest_parent) for a folder `name` holding d
move_folder(v, name, d, parent, io) ==
  LET target == IF name \in DOMAIN parent THEN FreeFolderName(name, parent, 1) ELSE name
  IN IF io.move THEN [out |-> "moved", target |-> target, parent |-> Put(parent, target, d)]
     ELSE [out |-> IF v = 1 THEN "raised" ELSE "failed", target |-> target, parent |-> parent]

\* --------------------------------------------------------- duplicate finder
\* the files base_folder.rglob('*') yields outside the category folders, as
\* <<folder, name>> with folder = <<>> for a top-level file
TopLevel == <<>>

ScannedPaths(t, ds) ==
  {<<TopLevel, n>> : n \in {m \in DOMAIN t : m \notin CategoryNames}}
    \cup UNION {{<<dn, n>> : n \in {m \in DOMAIN ds[dn].files : m \notin CategoryNames}} :
                  dn \in {x \in DOMAIN ds : x \notin CategoryNames}}

FileAt(t, ds, p) == IF p[1] = TopLevel THEN t[p[2]] ELSE ds[p[1]].files[p[2]]

\* hashes[h] of handle_duplicates: unhashable files are in no group
HashGroup(t, ds, h) ==
  {p \in ScannedPaths(t, ds) : compute_hash(FileAt(t, ds, p)) # NoHash
                                 /\ compute_hash(FileAt(t, ds, p)) = h}

HashesSeen(t, ds) ==
  {compute_hash(FileAt(t, ds, p)) : p \in ScannedPaths(t, ds)} \ {NoHash}

\* originals of a group: the paths whose stem holds no "(digits)"
Originals(g) == {p \in g : ~HasParenNumber(PathStem(p[2]))}

\* duplicates_to_delete over all groups; `firsts` holds file_paths[0] of every group
\* (rglob's order is the file system's)
DuplicatesToDelete(t, ds, firsts) ==
  UNION { LET g == HashGroup(t, ds, h)
              originals == IF Originals(g) = {} THEN g \cap firsts ELSE Originals(g)
          IN IF Cardinality(g) > 1 THEN g \ originals ELSE {}
          : h \in HashesSeen(t, ds) }

\* one member of each group can be listed first
IsFirsts(t, ds, firsts) ==
  \A h \in HashesSeen(t, ds) : Cardinality(HashGroup(t, ds, h) \cap firsts) = 1

WithoutPaths(t, ds, gone) ==
  [top |-> [n \in {m \in DOMAIN t : <<TopLevel, m>> \notin gone} |-> t[n]],
   dirs |-> [dn \in DOMAIN ds |->
               [id |-> ds[dn].id,
                files |-> [n \in {m \in DOMAIN ds[dn].files : <<dn, m>> \notin gone}
                             |-> ds[dn].files[n]]]]]

\* -------------------------------------------------------------------- state
VARIABLES
  ver,     \* 1: folder_organizer.py, 2: folder_organizer_v2.py
  top,     \* the files directly in the base folder: name -> file
  dirs,    \* the non-category folders directly in the base folder:
           \*   name -> [id, files: name -> file]
  cats,    \* the files in each category folder: label -> (name -> file)
  sub,     \* the folders inside "6 - FOLDERS": name -> [id, files]
  pc,      \* where main() is: "menu", "dedupe", "choices", "files", "folders",
           \*   "refine", or "crashed" after an exception left main()
  todo,    \* the entries of the loop's list(...iterdir()) not visited yet
  skipF,   \* files_to_skip
  skipD,   \* folders_to_skip
  choice,  \* the menu answer of this run
  moves,   \* files and folders this run's organize pass moved
  dels,    \* files this run's organize pass unlinked
  last,    \* the last call of move_and_rename_file, move_folder or handle_duplicates
  done,    \* the skip sets of the organize pass that has just completed, while
           \*   nothing has run since
  prev,    \* `done` as it was when this run began
  start    \* the tree when this run began, kept when prev.ok

vars == <<ver, top, dirs, cats, sub, pc, todo, skipF, skipD, choice, moves, dels,
          last, done, prev, start>>

Tree == [top |-> top, dirs |-> dirs, cats |-> cats, sub |-> sub]

Contents == {1, 2}

\* ------------------------------------------------------------ starting trees
A_txt == <<"a", ".", "t", "x", "t">>

A_1_txt == <<"a", "_", "1", ".", "t", "x", "t">>

A_p1_txt == <<"a", "(", "1", ")", ".", "t", "x", "t">>

R_pdf == <<"r", ".", "p", "d", "f">>

R_Pdf == <<"R", ".", "p", "d", "f">>

B_json == <<"b", ".", "j", "s", "o", "n">>

Projects == <<"P", "r", "o", "j", "e", "c", "t", "s">>

Projects_1 == <<"P", "r", "o", "j", "e", "c", "t", "s", "_", "1">>

TopFileNames == {A_txt, A_1_txt, A_p1_txt, R_pdf, B_json}

\* files already inside a category folder when the script starts
PreDest ==
  { <<"2 - DOCUMENTS", A_txt>>, <<"2 - DOCUMENTS", A_1_txt>>, <<"4 - PDFs", R_Pdf>>,
    <<"7 - CODING", B_json>>, <<"10 - OTHERS", B_json>> }

TopDirNames == {Projects, OthersV1Name}

SubDirNames == {Projects, Projects_1}

\* files inside a top-level folder
Nested == { <<Projects, A_txt>>, <<OthersV1Name, B_json>> }

\* a wider sample of file names, for classification and naming
NameSamples ==
  {
    <<"m", "y", "-", "r", "e", "p", "o", "r", "t", ".", "p", "d", "f">>,   \* my-report.pdf
    <<"b", ".", "P", "D", "F">>,   \* b.PDF
    <<"a", "B", ".", "P", "d", "f">>,   \* aB.Pdf
    <<"i", "t", "'", "s", ".", "p", "d", "f">>,   \* it's.pdf
    <<"3", "d", ".", "p", "d", "f">>,   \* 3d.pdf
    <<"i", "p", "y", "n", "b", ".", "p", "d", "f">>,   \* ipynb.pdf
    <<"n", "o", "t", "e", "s", ".", "i", "p", "y", "n", "b">>,   \* notes.ipynb
    <<"i", "p", "y", "n", "b", ".", "t", "x", "t">>,   \* ipynb.txt
    <<"a", ".", "i", "p", "y", "n", "b", ".", "b", "a", "k">>,   \* a.ipynb.bak
    <<"I", "P", "Y", "N", "B", ".", "m", "d">>,   \* IPYNB.md
    <<"R", "E", "A", "D", "M", "E">>,   \* README
    <<".", "b", "a", "s", "h", "r", "c">>,   \* .bashrc
    <<"x", ".", "z", "z">>,   \* x.zz
    <<"A", ".", "T", "X", "T">>,   \* A.TXT
    <<"c", ".", "t", "a", "r", ".", "g", "z">>,   \* c.tar.gz
    <<"d", ".", "T", "S">>,   \* d.TS
    <<"e", ".", "y", "m", "l">>,   \* e.yml
    <<"f", ".", "7", "z">>,   \* f.7z
    <<"g", ".", "j", "p", "e", "g">>,   \* g.jpeg
    <<"h", ".", "m", "p", "4">>,   \* h.mp4
    <<"i", ".", "e", "x", "e">>,   \* i.exe
    <<"j", ".", "c", "e", "r">>,   \* j.cer
    <<"k", ".", "p", "y">>    \* k.py
  }

FolderId(kind, name) ==
  CASE kind = "top" /\ name = Projects -> 1
    [] kind = "top" /\ name = OthersV1Name -> 2
    [] kind = "sub" /\ name = Projects -> 3
    [] kind = "sub" /\ name = Projects_1 -> 4

Holding(assign, c) == Cardinality({x \in DOMAIN assign : assign[x] = c})

\* contents are only ever compared for equality, so of two trees that differ by
\* exchanging the two contents one is enough
Canonical(ones, twos) == ones >= twos

\* every tree of at most `n` entries over the sample names; files are unreadable only
\* when `unreadable` allows it (the content of an unreadable file is never seen, so
\* it is fixed)
InitTree(n, unreadable) ==
  \E T \in SUBSET TopFileNames, P \in SUBSET PreDest, D \in SUBSET TopDirNames,
     S \in SUBSET SubDirNames, N \in SUBSET Nested :
    /\ Cardinality(T) + Cardinality(P) + Cardinality(D) + Cardinality(S)
         + Cardinality(N) <= n
    /\ \A e \in N : e[1] \in D
    /\ \E ct \in [T -> Contents], cp \in [P -> Contents], cn \in [N -> Contents],
          rt \in [T -> unreadable], rp \in [P -> unreadable] :
         /\ \A x \in T : rt[x] \/ ct[x] = 1
         /\ \A x \in P : rp[x] \/ cp[x] = 1
         /\ Canonical(Holding(ct, 1) + Holding(cp, 1) + Holding(cn, 1),
                      Holding(ct, 2) + Holding(cp, 2) + Holding(cn, 2))
         /\ top = [x \in T |-> [c |-> ct[x], r |-> rt[x]]]
         /\ cats = [l \in Labels |->
                      [x \in {e[2] : e \in {q \in P : q[1] = l}} |->
                         [c |-> cp[<<l, x>>], r |-> rp[<<l, x>>]]]]
         /\ dirs = [d \in D |->
                      [id |-> FolderId("top", d),
                       files |-> [x \in {e[2] : e \in {q \in N : q[1] = d}} |->
                                    [c |-> cn[<<d, x>>], r |-> TRUE]]]]
         /\ sub = [d \in S |-> [id |-> FolderId("sub", d), files |-> EmptyDir]]

NoPass == [ok |-> FALSE]

NoTree == [none |-> TRUE]

InitControl ==
  /\ ver \in {1, 2}
  /\ pc = "menu"
  /\ todo = {}
  /\ skipF = {}
  /\ skipD = {}
  /\ choice = "none"
  /\ moves = 0
  /\ dels = 0
  /\ last = [op |-> "none"]
  /\ done = NoPass
  /\ prev = NoPass
  /\ start = NoTree

\* one top-level file of the wider sample, and nothing else
InitNames ==
  /\ \E n \in NameSamples : top = [x \in {n} |-> [c |-> 1, r |-> TRUE]]
  /\ cats = [l \in Labels |-> EmptyDir]
  /\ dirs = EmptyDir
  /\ sub = EmptyDir

\* every file readable
Init == InitControl /\ (InitTree(MaxEntries, {TRUE}) \/ InitNames)

\* files may be unreadable
InitFault == InitControl /\ InitTree(MaxFaultEntries, BOOLEAN)

\* ------------------------------------------------------------------ actions
\* the outcome of the file system calls: does unlink succeed, does shutil.move succeed
NominalIO == {[unlink |-> TRUE, move |-> TRUE]}

AnyIO == [unlink : BOOLEAN, move : BOOLEAN]

\* the script is launched (first script), or the menu is answered (rewrite)
ChooseAction ==
  /\ pc \in {"menu", "crashed"}
  /\ \E a \in IF ver = 1 THEN {"Organize"} ELSE {"Organize", "Duplicates", "Both"} :
       /\ choice' = a
       /\ pc' = IF a = "Organize" THEN "choices" ELSE "dedupe"
  /\ moves' = 0
  /\ dels' = 0
  /\ todo' = {}
  /\ skipF' = {}
  /\ skipD' = {}
  /\ last' = [op |-> "none"]
  /\ prev' = done
  /\ done' = NoPass
  /\ start' = IF done.ok THEN Tree ELSE NoTree
  /\ UNCHANGED <<ver, top, dirs, cats, sub>>

\* handle_duplicates(base_folder, defined_categories); `failing` are the duplicates
\* whose unlink raises OSError (caught and logged)
HandleDuplicates(canFail) ==
  /\ pc = "dedupe"
  /\ \E firsts \in SUBSET ScannedPaths(top, dirs) :
       /\ IsFirsts(top, dirs, firsts)
       /\ LET marked == DuplicatesToDelete(top, dirs, firsts)
          IN \E failing \in IF canFail THEN SUBSET marked ELSE {{}} :
               LET gone == marked \ failing
                   after == WithoutPaths(top, dirs, gone)
               IN /\ top' = after.top
                  /\ dirs' = after.dirs
                  /\ last' = [op |-> "dedupe", top |-> top, dirs |-> dirs,
                              gone |-> gone, count |-> Cardinality(gone)]
  /\ pc' = IF choice = "Both" THEN "choices" ELSE "menu"
  /\ UNCHANGED <<ver, cats, sub, todo, skipF, skipD, choice, moves, dels, done, prev, start>>

\* a plausible slip: the directory iterated while files are moved out of it, so that
\* an entry is passed over
ListingLive(d) ==
  IF Cardinality(DOMAIN d) > 1
    THEN (DOMAIN d) \ {CHOOSE n \in DOMAIN d : TRUE}
    ELSE DOMAIN d

\* list(folder.iterdir()): the names in the folder when the loop starts
Listing(d) == DOMAIN d

\* get_user_choices, the ensure_folder_exists loop and the first list(iterdir());
\* only the files of the listing are kept, a folder in it is not is_file()
BeginOrganize ==
  /\ pc = "choices"
  /\ \E sf \in SUBSET DOMAIN top, sd \in SUBSET {d \in DOMAIN dirs : d \notin CategoryNames} :
       /\ Cardinality(sf) + Cardinality(sd) <= (IF ver = 1 THEN 0 ELSE MaxSkip)
       /\ skipF' = sf
       /\ skipD' = sd
  /\ todo' = Listing(top)
  /\ pc' = "files"
  /\ UNCHANGED <<ver, top, dirs, cats, sub, choice, moves, dels, last, done, prev, start>>

Bump(counter, out, which) == IF out = which THEN counter + 1 ELSE counter

\* one iteration of the file loop of main()
FileStep(IO) ==
  /\ pc = "files"
  /\ \E n \in todo :
       /\ todo' = todo \ {n}
       /\ IF n \in skipF \/ n \in skipD \/ n \in CategoryNames
            THEN UNCHANGED <<top, cats, pc, moves, dels, last>>
            ELSE \E io \in IO :
                   LET dest == Classify(ver, n)
                       res == move_and_rename_file(ver, n, top[n], cats[dest], io)
                   IN /\ top' = IF res.out \in {"moved", "deleted"} THEN Remove(top, n) ELSE top
                      /\ cats' = [cats EXCEPT ![dest] = res.dest]
                      /\ pc' = IF res.out = "raised" THEN "crashed" ELSE pc
                      /\ moves' = Bump(moves, res.out, "moved")
                      /\ dels' = Bump(dels, res.out, "deleted")
                      /\ last' = [op |-> "file", phase |-> "main", name |-> n,
                                  file |-> top[n], dest |-> dest, pre |-> cats[dest],
                                  base |-> get_target_filename(n), io |-> io,
                                  out |-> res.out, target |-> res.target]
  /\ UNCHANGED <<ver, dirs, sub, skipF, skipD, choice, done, prev, start>>

\* the file loop ends; the second list(iterdir())
EndFiles ==
  /\ pc = "files"
  /\ todo = {}
  /\ pc' = "folders"
  /\ todo' = Listing(dirs)
  /\ UNCHANGED <<ver, top, dirs, cats, sub, skipF, skipD, choice, moves, dels, last, done, prev, start>>

\* one iteration of the folder loop of main()
FolderStep(IO) ==
  /\ pc = "folders"
  /\ \E d \in todo :
       /\ todo' = todo \ {d}
       /\ IF d \in CategoryNames \/ d \in skipD
            THEN UNCHANGED <<dirs, sub, pc, moves, last>>
            ELSE \E io \in IO :
                   LET res == move_folder(ver, d, dirs[d], sub, io)
                   IN /\ dirs' = IF res.out = "moved" THEN Remove(dirs, d) ELSE dirs
                      /\ sub' = res.parent
                      /\ pc' = IF res.out = "raised" THEN "crashed" ELSE pc
                      /\ moves' = Bump(moves, res.out, "moved")
                      /\ last' = [op |-> "folder", name |-> d, folder |-> dirs[d],
                                  pre |-> sub, out |-> res.out, target |-> res.target]
  /\ UNCHANGED <<ver, top, cats, skipF, skipD, choice, dels, done, prev, start>>

\* the folder that refine_sorting lists, as a directory
OthersDir ==
  IF ver = 1
    THEN IF OthersV1Name \in DOMAIN dirs THEN dirs[OthersV1Name].files ELSE EmptyDir
    ELSE cats["10 - OTHERS"]

\* the folder loop ends; refine_sorting takes list(others_folder.iterdir())
EndFolders ==
  /\ pc = "folders"
  /\ todo = {}
  /\ pc' = "refine"
  /\ todo' = Listing(OthersDir)
  /\ UNCHANGED <<ver, top, dirs, cats, sub, skipF, skipD, choice, moves, dels, last, done, prev, start>>

\* one iteration of the loop of refine_sorting
RefineStep(IO) ==
  /\ pc = "refine"
  /\ \E n \in todo :
       /\ todo' = todo \ {n}
       /\ IF Lower(PathSuffix(n)) \notin refine_exts
            THEN UNCHANGED <<dirs, cats, pc, moves, dels, last>>
            ELSE \E io \in IO :
                   LET f == OthersDir[n]
                       res == move_and_rename_file(ver, n, f, cats["7 - CODING"], io)
                       gone == res.out \in {"moved", "deleted"}
                   IN /\ IF ver = 1
                           THEN /\ dirs' = IF gone
                                             THEN [dirs EXCEPT ![OthersV1Name].files =
                                                     Remove(@, n)]
                                             ELSE dirs
                                /\ cats' = [cats EXCEPT !["7 - CODING"] = res.dest]
                           ELSE /\ dirs' = dirs
                                /\ cats' = [cats EXCEPT
                                              !["7 - CODING"] = res.dest,
                                              !["10 - OTHERS"] =
                                                 IF gone THEN Remove(@, n) ELSE @]
                      /\ pc' = IF res.out = "raised" THEN "crashed" ELSE pc
                      /\ moves' = Bump(moves, res.out, "moved")
                      /\ dels' = Bump(dels, res.out, "deleted")
                      /\ last' = [op |-> "file", phase |-> "refine", name |-> n,
                                  file |-> f, dest |-> "7 - CODING",
                                  pre |-> cats["7 - CODING"],
                                  base |-> get_target_filename(n), io |-> io,
                                  out |-> res.out, target |-> res.target]
  /\ UNCHANGED <<ver, top, sub, skipF, skipD, choice, done, prev, start>>

\* refine_sorting returns: the organize pass is complete
EndRefine ==
  /\ pc = "refine"
  /\ todo = {}
  /\ pc' = "menu"
  /\ done' = [ok |-> TRUE, skipF |-> skipF, skipD |-> skipD]
  /\ UNCHANGED <<ver, top, dirs, cats, sub, todo, skipF, skipD, choice, moves, dels, last,
                 prev, start>>

Next ==
  \/ ChooseAction
  \/ HandleDuplicates(FALSE)
  \/ BeginOrganize
  \/ FileStep(NominalIO)
  \/ EndFiles
  \/ FolderStep(NominalIO)
  \/ EndFolders
  \/ RefineStep(NominalIO)
  \/ EndRefine

\* the scripts on a file system whose calls all succeed
Spec == Init /\ [][Next]_vars

NextFault ==
  \/ ChooseAction
  \/ HandleDuplicates(TRUE)
  \/ BeginOrganize
  \/ FileStep(AnyIO)
  \/ EndFiles
  \/ FolderStep(AnyIO)
  \/ EndFolders
  \/ RefineStep(AnyIO)
  \/ EndRefine

\* the scripts on a file system where a file may be unreadable and unlink and
\* shutil.move may raise OSError
SpecFault == InitFault /\ [][NextFault]_vars

\* ================================================================== claims
\* the directory a call of move_and_rename_file took its source from
SourceDir(phase) == IF phase = "main" THEN top ELSE OthersDir

\* the call recorded in `last` found its desired name taken in the destination
Collided == last.op = "file" /\ last.base \in DOMAIN last.pre

\* '<stem>_<n><ext>' for a target name
Suffixed(base, n) == SplitExt(base)[1] \o <<"_">> \o Str(n) \o SplitExt(base)[2]

\* the least n >= 1 whose '<stem>_<n><ext>' is not in the directory
FirstFreeCounter(d, base) ==
  CHOOSE n \in 1..(Cardinality(DOMAIN d) + 1) :
    /\ Suffixed(base, n) \notin DOMAIN d
    /\ \A m \in 1..(n - 1) : Suffixed(base, m) \in DOMAIN d

\* every file of the destination before the call is still there, name and content
DestKept == \A n \in DOMAIN last.pre : n \in DOMAIN cats[last.dest]
                                         /\ cats[last.dest][n] = last.pre[n]

\* C1: when the destination already holds the desired target name with the same
\* content digest as the source, move_and_rename_file deletes the source, moves
\* nothing and raises nothing: the destination is as it was, holding exactly one file
\* of that name and content, and the source is gone.
C1_DuplicateSourceDeleted ==
  (/\ Collided
   /\ CanHash(last.file) /\ CanHash(last.pre[last.base])
   /\ last.pre[last.base].c = last.file.c)
  => /\ last.out = "deleted"
     /\ cats[last.dest] = last.pre
     /\ last.name \notin DOMAIN SourceDir(last.phase)
     /\ Cardinality({n \in DOMAIN cats[last.dest] :
                       n = last.base /\ cats[last.dest][n].c = last.file.c}) = 1

\* a duplicate was met under a target name that differs from the source's own name
C1_Witness ==
  /\ Collided
  /\ last.pre[last.base].c = last.file.c
  /\ last.base # last.name
  /\ last.out = "deleted"

\* C2 as stated: when the destination holds the desired target name with different
\* content, the source is moved to the first non-existing '<stem>_<n><ext>', both
\* files are present afterwards and every file of the destination is kept.
C2_AlwaysMovedToFirstFree ==
  (Collided /\ last.pre[last.base].c # last.file.c)
  => /\ last.out = "moved"
     /\ last.target = Suffixed(last.base, FirstFreeCounter(last.pre, last.base))
     /\ last.target \in DOMAIN cats[last.dest]
     /\ cats[last.dest][last.target] = last.file
     /\ DestKept

\* the first script met an existing '<stem>_<m><ext>' holding the source's content
\* before it reached a free name
EarlierCopy ==
  /\ ver = 1
  /\ \E m \in 1..(FirstFreeCounter(last.pre, last.base) - 1) :
       last.pre[Suffixed(last.base, m)].c = last.file.c

\* C2, amended: when the destination holds the desired target name with different
\* content, every file of the destination is kept under its name with its content,
\* and the source is moved to the first non-existing '<stem>_<n><ext>' -- except that
\* folder_organizer.py deletes the source instead, leaving the destination as it was,
\* when an existing '<stem>_<m><ext>' below that n holds the source's content.
C2_MovedOrEarlierCopy ==
  (Collided /\ last.pre[last.base].c # last.file.c)
  => /\ DestKept
     /\ last.name \notin DOMAIN SourceDir(last.phase)
     /\ IF EarlierCopy
          THEN last.out = "deleted" /\ cats[last.dest] = last.pre
          ELSE /\ last.out = "moved"
               /\ last.target = Suffixed(last.base, FirstFreeCounter(last.pre, last.base))
               /\ cats[last.dest] = Put(last.pre, last.target, last.file)

\* '<stem>_1<ext>' was taken, by other content, and the source went to '<stem>_2<ext>'
C2_Witness ==
  /\ Collided
  /\ last.pre[last.base].c # last.file.c
  /\ last.out = "moved"
  /\ last.target = Suffixed(last.base, 2)
  /\ Cardinality(DOMAIN cats[last.dest]) = 3

\* C3: an organize pass that follows a completed organize pass directly, with the same
\* skip sets, moves nothing, deletes nothing and leaves the tree as it found it.
C3_SecondPassIdle ==
  (/\ pc = "menu"
   /\ done.ok
   /\ prev.ok
   /\ choice = "Organize"
   /\ prev.skipF = skipF
   /\ prev.skipD = skipD)
  => /\ moves = 0
     /\ dels = 0
     /\ Tree = start

\* a second pass has completed on a tree where the first had files to place, a folder
\* to relocate and an entry to skip
C3_Witness ==
  /\ pc = "menu"
  /\ done.ok
  /\ prev.ok
  /\ choice = "Organize"
  /\ prev.skipF = skipF
  /\ prev.skipD = skipD
  /\ skipF # {}
  /\ sub # EmptyDir
  /\ \E l \in Labels : cats[l] # EmptyDir

\* the hashable files the duplicate finder was given, outside the category folders,
\* that hold content c
SameContent(c) ==
  {p \in ScannedPaths(last.top, last.dirs) :
     LET f == FileAt(last.top, last.dirs, p) IN CanHash(f) /\ f.c = c}

\* a stem that ends in '_<digits>' or holds '(<digits>)'
EndsInCounter(stem) ==
  \E i \in 1..(Len(stem) - 1) :
     stem[i] = "_" /\ \A k \in (i + 1)..Len(stem) : IsDigit(stem[k])

Marked(p) == EndsInCounter(PathStem(p[2])) \/ HasParenNumber(PathStem(p[2]))

\* C4: handle_duplicates leaves exactly one file of every group of two or more
\* hashable files with identical content, an unmarked one when the group has one,
\* and returns the number of files it deleted, all the others.
C4_OneSurvivorPerGroup ==
  last.op = "dedupe"
  => /\ \A c \in Contents :
          LET g == SameContent(c)
          IN Cardinality(g) >= 2
               => /\ Cardinality(g \ last.gone) = 1
                  /\ (\E p \in g : ~Marked(p)) => \A p \in g \ last.gone : ~Marked(p)
     /\ last.count = Cardinality(last.gone)
     /\ \A c \in Contents :
          Cardinality(SameContent(c)) >= 2
            => Cardinality(SameContent(c) \cap last.gone) = Cardinality(SameContent(c)) - 1

\* the least n >= 1 whose '<name>_<n>' is not in the directory
FirstFreeFolderCounter(d, name) ==
  CHOOSE n \in 1..(Cardinality(DOMAIN d) + 1) :
    /\ (name \o <<"_">> \o Str(n)) \notin DOMAIN d
    /\ \A m \in 1..(n - 1) : (name \o <<"_">> \o Str(m)) \in DOMAIN d

\* C5: a top-level folder that is no category folder (and is not skipped) is moved into
\* "6 - FOLDERS" under its own name, or under the first free '<name>_<n>' when that
\* name is taken; the moved folder arrives whole, and every folder that was there is
\* kept as it was: nothing is merged, overwritten or deleted.
C5_FolderRelocated ==
  /\ last.op = "folder"
       => LET expected ==
                IF last.name \in DOMAIN last.pre
                  THEN last.name \o <<"_">>
                         \o Str(FirstFreeFolderCounter(last.pre, last.name))
                  ELSE last.name
          IN /\ last.out = "moved"
             /\ last.target = expected
             /\ DOMAIN sub = (DOMAIN last.pre) \cup {expected}
             /\ expected \notin DOMAIN last.pre
             /\ sub[expected] = last.folder
             /\ \A d \in DOMAIN last.pre : sub[d] = last.pre[d]
             /\ last.name \notin DOMAIN dirs
  /\ pc = "refine" => \A d \in DOMAIN dirs : d \in skipD

\* Projects met Projects and Projects_1 in "6 - FOLDERS" and became Projects_2
C5_Witness ==
  /\ last.op = "folder"
  /\ last.name = Projects
  /\ {Projects, Projects_1} \subseteq DOMAIN last.pre
  /\ last.target = Projects \o <<"_", "2">>
  /\ Cardinality(DOMAIN sub) = 3

\* the effective extension: ".ipynb" when the name contains the marker, else the
\* lowercased suffix
EffectiveExt(name) ==
  IF Contains(Lower(name), Ipynb) THEN DotIpynb ELSE Lower(PathSuffix(name))

\* the first label in table order whose extension set holds the effective extension,
\* else the fallback
ExpectedLabel(name) ==
  IF \E i \in 1..Len(folders) : EffectiveExt(name) \in folders[i].exts
    THEN folders[CHOOSE i \in 1..Len(folders) :
                   /\ EffectiveExt(name) \in folders[i].exts
                   /\ \A j \in 1..(i - 1) : EffectiveExt(name) \notin folders[j].exts].label
    ELSE "10 - OTHERS"

\* C6: every top-level file the pass places is sent to the first label in table order
\* whose extension set contains its effective extension (".ipynb" for a name
\* containing 'ipynb'), or to "10 - OTHERS" when no set contains it.
C6_SentToExpectedLabel ==
  (last.op = "file" /\ last.phase = "main") => last.dest = ExpectedLabel(last.name)

\* str.title() told from the left: a letter is upper-cased at the start of a word and
\* lower-cased inside one
RECURSIVE TitleCased(_, _)
TitleCased(s, inWord) ==
  IF s = <<>> THEN <<>>
  ELSE <<IF IsCased(Head(s))
           THEN IF inWord THEN LowerChar(Head(s)) ELSE UpperChar(Head(s))
           ELSE Head(s)>>
         \o TitleCased(Tail(s), IsCased(Head(s)))

\* the stem title-cased, the extension lowercased
PdfName(name) == TitleCased(SplitExt(name)[1], FALSE) \o Lower(SplitExt(name)[2])

IsPdf(name) == Lower(PathSuffix(name)) = DotPdf

MyReport == <<"m", "y", "-", "r", "e", "p", "o", "r", "t", ".", "p", "d", "f">>

MyReportTitled == <<"M", "y", "-", "R", "e", "p", "o", "r", "t", ".", "p", "d", "f">>

\* C7 as stated: a file placed into "4 - PDFs" gets its stem title-cased and its
\* extension lowercased; a file placed into any other category keeps its name.
C7_NamedByCategory ==
  last.op = "file"
  => IF last.dest = "4 - PDFs" THEN last.base = PdfName(last.name)
     ELSE last.base = last.name

\* C7, amended: the desired target name depends on the file's own suffix, not on the
\* category it is placed into: a file whose lowercased suffix is ".pdf" gets its stem
\* title-cased and its extension lowercased (my-report.pdf becomes My-Report.pdf),
\* every other file keeps its name.  Every file placed into "4 - PDFs" is such a
\* file; the only ".pdf" files placed elsewhere are those whose name contains
\* 'ipynb', which folder_organizer_v2.py places into "7 - CODING", title-cased too.
C7_NamedBySuffix ==
  last.op = "file"
  => /\ IF IsPdf(last.name) THEN last.base = PdfName(last.name)
        ELSE last.base = last.name
     /\ last.name = MyReport => last.base = MyReportTitled
     /\ last.dest = "4 - PDFs" => IsPdf(last.name)
     /\ (IsPdf(last.name) /\ last.dest # "4 - PDFs")
          => /\ ver = 2
             /\ Contains(Lower(last.name), Ipynb)
             /\ last.dest = "7 - CODING"
     /\ (last.out = "moved" /\ last.base \notin DOMAIN last.pre) => last.target = last.base

\* a ".pdf" file went to "7 - CODING" under a title-cased name
C7_Witness ==
  /\ last.op = "file"
  /\ IsPdf(last.name)
  /\ last.dest = "7 - CODING"
  /\ last.out = "moved"
  /\ last.target # last.name
  /\ last.target \in DOMAIN cats["7 - CODING"]

\* C8: when the desired name is taken by other content and an existing
\* '<stem>_<n><ext>' holds the source's content, the source is deleted and the
\* destination gets no new file, so that no two files of the destination that the
\* call touches hold the same content.
C8_CandidateDuplicateCaught ==
  (/\ Collided
   /\ last.pre[last.base].c # last.file.c
   /\ \E m \in 1..(FirstFreeCounter(last.pre, last.base) - 1) :
        last.pre[Suffixed(last.base, m)].c = last.file.c)
  => /\ last.out = "deleted"
     /\ cats[last.dest] = last.pre

\* C9: a source that cannot be hashed is never unlinked by move_and_rename_file: it is
\* moved (when shutil.move succeeds); and handle_duplicates deletes no unhashable file.
C9_UnhashableNeverDeleted ==
  /\ (last.op = "file" /\ ~CanHash(last.file))
       => /\ last.out # "deleted"
          /\ last.io.move => last.out = "moved"
  /\ last.op = "dedupe"
       => \A p \in last.gone : CanHash(FileAt(last.top, last.dirs, p))

\* C10: no failure of one file's read, move or delete aborts the pass.
C10_PassNeverAborted == pc # "crashed"

\* the files directly inside the fallback folder that refine_sorting should re-route
Reroutable == {n \in DOMAIN cats["10 - OTHERS"] : Lower(PathSuffix(n)) \in refine_exts}

\* C11: once an organize pass has completed, no file directly inside "10 - OTHERS" has
\* an extension of the re-routing set, and every call the refinement pass made placed
\* its file into "7 - CODING" (moved, or deleted as a duplicate).
C11_FallbackRefined ==
  /\ (pc = "menu" /\ done.ok) => Reroutable = {}
  /\ (last.op = "file" /\ last.phase = "refine")
       => /\ last.dest = "7 - CODING"
          /\ last.out \in {"moved", "deleted"}

====
